---- MODULE Spec2Model ----
(***************************************************************************)
(* Model of the scoring engines of services/databaseService.ts:            *)
(*   - phishingScanner.scanUrl and its helpers (URL risk aggregator)       *)
(*   - passwordStrengthChecker.checkPasswordBreach (k-anonymity lookup)    *)
(*   - passwordStrengthChecker.checkStrength (local strength heuristic)    *)
(*   - phishingScanner.normalizeUrl                                        *)
(*   - passwordStrengthChecker.generateStrongPassword                      *)
(* and of two component handlers that keep React state next to the store:  *)
(*   - PhishingScanner.deleteScan (optimistic removal from the history)    *)
(*   - TodoManager.toggleComplete (update of the task list after a write)  *)
(* JavaScript strings are modelled as sequences of one-character strings.  *)
(* An optional / possibly-NaN JavaScript number is modelled as a set with  *)
(* at most one integer: {} is undefined or NaN, {n} is the number n.       *)
(***************************************************************************)
EXTENDS Integers, Sequences, FiniteSets, TLC

VARIABLES
    \* ---- scanUrl ----
    url,        \* the argument of scanUrl
    env,        \* import.meta.env as seen by the key getters
    pc,         \* position of the scanUrl call
    basicCheck, \* the local const basicCheck, once stage 1 has run
    results,    \* the local `results` object, then the returned value
    log,        \* per stage: what happened to its external call
    calls,      \* the external services queried so far, in order
    clock,      \* wall clock read by new Date()
    \* ---- checkPasswordBreach ----
    password,   \* the argument of checkPasswordBreach
    cryptoOk,   \* whether crypto.subtle is available
    bpc,        \* position of the checkPasswordBreach call
    hash,       \* passwordHash, prefix and suffix once computed
    request,    \* the outgoing fetch: URL and User-Agent header
    response,   \* what fetch produced: status, the lines the service sent, the body text
    breach,     \* the returned value
    \* ---- checkStrength ----
    candidate,  \* the argument of checkStrength
    spc,        \* position of the checkStrength call
    assessment, \* the returned value: score, strength, feedback
    \* ---- normalizeUrl ----
    raw,        \* the argument of normalizeUrl
    npc,        \* position of the caller of normalizeUrl
    normalized, \* what normalizeUrl(raw) returned
    renormalized, \* what normalizeUrl returned for its own result
    \* ---- two calls of checkPasswordBreach in a row ----
    round,      \* which call of checkPasswordBreach is running: 1 or 2
    earlier,    \* what the first call returned
    backend,    \* what the range service answered the first call
    \* ---- PhishingScanner component: deleteScan ----
    history,    \* React state `history`: the scans shown, newest first
    scanStats,  \* React state `scanStats`: total, safe, unsafe
    store,      \* the user's phishingScans collection in the document store
    delivered,  \* the query result the snapshot listener delivered last
    dpc,        \* position of the deleteScan call
    scanId,     \* the argument of deleteScan
    before,     \* history and scanStats when deleteScan was called
    \* ---- TodoManager component: toggleComplete ----
    tasks,      \* React state `tasks`: the completed flag of each task
    todoStore,  \* the completed field of each todo document in the store
    toggles,    \* the toggleComplete calls started so far
    \* ---- generateStrongPassword ----
    generated,  \* the local `password` of generateStrongPassword, then its result
    gpc,        \* position of the generateStrongPassword call and of its caller
    rating      \* what checkStrength returns for the generated password

scanVars   == <<url, env, pc, basicCheck, results, log, calls, clock>>
breachVars == <<password, cryptoOk, bpc, hash, request, response, breach>>
strengthVars == <<candidate, spc, assessment>>
normVars   == <<raw, npc, normalized, renormalized>>
twiceVars  == <<round, earlier, backend>>
deleteVars == <<history, scanStats, store, delivered, dpc, scanId, before>>
todoVars   == <<tasks, todoStore, toggles>>
genVars    == <<generated, gpc, rating>>
vars       == <<url, env, pc, basicCheck, results, log, calls, clock,
                password, cryptoOk, bpc, hash, request, response, breach,
                candidate, spc, assessment,
                raw, npc, normalized, renormalized,
                round, earlier, backend,
                history, scanStats, store, delivered, dpc, scanId, before,
                tasks, todoStore, toggles,
                generated, gpc, rating>>

----------------------------------------------------------------------------
(* Bounds *)

\* longest list of matches a threat-match response carries
MaxMatches == 2
\* most lines in a range response body
MaxLines == 2
\* most engines of the multi-engine service that flag a URL
MaxEngines == 2
\* longest core of class characters of a candidate password
MaxCore == 4
\* most scans in a user's history
MaxScans == 3
\* number of tasks in the task list
MaxTasks == 2
\* most toggleComplete calls started in one run
MaxToggles == 2
\* most places of a generated password where the character differs from the
\* one before it
MaxChanges == 1

----------------------------------------------------------------------------
(* String helpers (String.prototype methods used by the code) *)

Range(s) == { s[i] : i \in 1..Len(s) }

UpperLetters == <<"A","B","C","D","E","F","G","H","I","J","K","L","M",
                  "N","O","P","Q","R","S","T","U","V","W","X","Y","Z">>
LowerLetters == <<"a","b","c","d","e","f","g","h","i","j","k","l","m",
                  "n","o","p","q","r","s","t","u","v","w","x","y","z">>
Digits == {"0","1","2","3","4","5","6","7","8","9"}

ToLowerChar(c) ==
    IF \E i \in 1..26 : UpperLetters[i] = c
    THEN LowerLetters[CHOOSE i \in 1..26 : UpperLetters[i] = c]
    ELSE c

ToUpperChar(c) ==
    IF \E i \in 1..26 : LowerLetters[i] = c
    THEN UpperLetters[CHOOSE i \in 1..26 : LowerLetters[i] = c]
    ELSE c

\* (SubSeq makes the result an explicit tuple)
toLowerCase(s) == SubSeq([i \in 1..Len(s) |-> ToLowerChar(s[i])], 1, Len(s))
toUpperCase(s) == SubSeq([i \in 1..Len(s) |-> ToUpperChar(s[i])], 1, Len(s))

\* s has w at position i
HasAt(s, i, w) ==
    /\ i >= 1
    /\ i + Len(w) - 1 <= Len(s)
    /\ SubSeq(s, i, i + Len(w) - 1) = w

startsWith(s, w) == HasAt(s, 1, w)

\* s.substring(from) and s.substring(from, to), 0-based as in JavaScript
substringFrom(s, from) == SubSeq(s, from + 1, Len(s))
substring(s, from, to) ==
    SubSeq(s, from + 1, IF to < Len(s) THEN to ELSE Len(s))

Contains(s, w) == \E i \in 1..Len(s) : HasAt(s, i, w)

IsLowerAlnum(c) == c \in Range(LowerLetters) \cup Digits

IsDigit(c) == c \in Digits

\* s[i..j] is a non-empty run of [a-z0-9] characters, of digits
IsLowerAlnumRun(s, i, j) == i <= j /\ j <= Len(s) /\ \A k \in i..j : IsLowerAlnum(s[k])
IsDigitRun(s, i, j)      == i <= j /\ j <= Len(s) /\ \A k \in i..j : IsDigit(s[k])

----------------------------------------------------------------------------
(* phishingScanner.basicUrlAnalysis *)

\* /(w1|w2|...)\.([a-z0-9]+)\.([a-z0-9]+)/ for the alternatives in words
WordDotLabelDotLabel(s, words) ==
    \E i \in 1..Len(s), w \in words :
        /\ HasAt(s, i, w)
        /\ LET p == i + Len(w) IN
           /\ p <= Len(s)
           /\ s[p] = "."
           /\ \E j \in (p+1)..Len(s) :
                /\ IsLowerAlnumRun(s, p + 1, j)
                /\ j + 2 <= Len(s)
                /\ s[j+1] = "."
                /\ IsLowerAlnum(s[j+2])

LoginWords == { <<"l","o","g","i","n">>, <<"s","i","g","n","i","n">>, <<"a","c","c","o","u","n","t">> }
BrandWords == { <<"p","a","y","p","a","l">>, <<"b","a","n","k">>, <<"a","m","a","z","o","n">>, <<"g","o","o","g","l","e">>, <<"f","a","c","e","b","o","o","k">> }
ShortenerWords == { <<"b","i","t",".","l","y">>, <<"t","i","n","y","u","r","l">>, <<"g","o","o",".","g","l">>, <<"t",".","c","o">>, <<"o","w",".","l","y">> }
KeywordWords == { <<"-","l","o","g","i","n","-">>, <<"s","e","c","u","r","e","-">>, <<"v","e","r","i","f","y","-">>, <<"a","c","c","o","u","n","t","-">> }

\* /https?:\/\/\d+\.\d+\.\d+\.\d+/
IpPattern(s) ==
    \E i \in 1..Len(s), sch \in { <<"h","t","t","p",":","/","/">>, <<"h","t","t","p","s",":","/","/">> } :
        /\ HasAt(s, i, sch)
        /\ LET p == i + Len(sch) IN
           \E a \in p..Len(s) :
             /\ IsDigitRun(s, p, a)
             /\ a + 1 <= Len(s) /\ s[a+1] = "."
             /\ \E b \in (a+2)..Len(s) :
                  /\ IsDigitRun(s, a + 2, b)
                  /\ b + 1 <= Len(s) /\ s[b+1] = "."
                  /\ \E c \in (b+2)..Len(s) :
                       /\ IsDigitRun(s, b + 2, c)
                       /\ c + 2 <= Len(s) /\ s[c+1] = "."
                       /\ IsDigit(s[c+2])

\* suspiciousPatterns, in the order of the array; each entry is tested on
\* url.toLowerCase()
suspiciousPatterns(u) ==
    LET s == toLowerCase(u) IN
    << [hit |-> WordDotLabelDotLabel(s, LoginWords),
        threat |-> "Potential phishing page"],
       [hit |-> WordDotLabelDotLabel(s, BrandWords),
        threat |-> "Brand impersonation"],
       [hit |-> \E w \in ShortenerWords : Contains(s, w),
        threat |-> "URL shortener"],
       [hit |-> Contains(s, <<"@">>),
        threat |-> "Misleading @ symbol"],
       [hit |-> IpPattern(s),
        threat |-> "IP address instead of domain"],
       [hit |-> \E w \in KeywordWords : Contains(s, w),
        threat |-> "Suspicious keywords"] >>

\* threats.push for the entries of ps[k..] that hit
RECURSIVE PushHits(_, _)
PushHits(ps, k) ==
    IF k > Len(ps) THEN <<>>
    ELSE (IF ps[k].hit THEN <<ps[k].threat>> ELSE <<>>) \o PushHits(ps, k + 1)

HttpsPrefix == <<"h","t","t","p","s",":","/","/">>
LongUrlLimit == 100

\* a string built by Array.prototype.join or a template: prefix, the joined
\* parts with their separator, suffix
Text(prefix, parts, sep, suffix) ==
    [prefix |-> prefix, parts |-> parts, sep |-> sep, suffix |-> suffix]
Plain(str) == Text(str, <<>>, "", "")

\* high risk from two findings on
basicUrlAnalysis_HighAtTwo(u) ==
    LET threats ==
            PushHits(suspiciousPatterns(u), 1)
            \o (IF ~startsWith(u, HttpsPrefix) THEN <<"Not using HTTPS">> ELSE <<>>)
            \o (IF Len(u) > LongUrlLimit THEN <<"Unusually long URL">> ELSE <<>>)
    IN  [ safe |-> Len(threats) = 0,
          riskLevel |-> IF Len(threats) >= 2 THEN "high"
                        ELSE IF Len(threats) >= 1 THEN "medium" ELSE "low",
          threatTypes |-> threats,
          details |-> IF Len(threats) > 0 THEN Text("", threats, ". ", "")
                      ELSE Plain("Passes basic checks") ]

\* the HTTPS test made on the lower-cased URL
basicUrlAnalysis_AnyCaseScheme(u) ==
    LET threats ==
            PushHits(suspiciousPatterns(u), 1)
            \o (IF ~startsWith(toLowerCase(u), HttpsPrefix)
                THEN <<"Not using HTTPS">> ELSE <<>>)
            \o (IF Len(u) > LongUrlLimit THEN <<"Unusually long URL">> ELSE <<>>)
    IN  [ safe |-> Len(threats) = 0,
          riskLevel |-> IF Len(threats) >= 3 THEN "high"
                        ELSE IF Len(threats) >= 1 THEN "medium" ELSE "low",
          threatTypes |-> threats,
          details |-> IF Len(threats) > 0 THEN Text("", threats, ". ", "")
                      ELSE Plain("Passes basic checks") ]
basicUrlAnalysis(u) ==
    LET threats ==
            PushHits(suspiciousPatterns(u), 1)
            \o (IF ~startsWith(u, HttpsPrefix) THEN <<"Not using HTTPS">> ELSE <<>>)
            \o (IF Len(u) > LongUrlLimit THEN <<"Unusually long URL">> ELSE <<>>)
    IN  [ safe |-> Len(threats) = 0,
          riskLevel |-> IF Len(threats) >= 3 THEN "high"
                        ELSE IF Len(threats) >= 1 THEN "medium" ELSE "low",
          threatTypes |-> threats,
          details |-> IF Len(threats) > 0 THEN Text("", threats, ". ", "")
                      ELSE Plain("Passes basic checks") ]

----------------------------------------------------------------------------
(* The URLs the scanner is run on *)

\* https://example.com
UrlClean ==
    <<"h","t","t","p","s",":","/","/","e","x","a","m","p","l","e",".","c","o","m">>
\* http://bit.ly/abc
UrlShortener ==
    <<"h","t","t","p",":","/","/","b","i","t",".","l","y","/","a","b","c">>
\* example.com
UrlBare ==
    <<"e","x","a","m","p","l","e",".","c","o","m">>
\* http://user@evil.com
UrlAt ==
    <<"h","t","t","p",":","/","/","u","s","e","r","@","e","v","i","l",".","c","o","m">>
\* https://login.paypal.com.evil.co/secure-a
UrlPhish ==
    <<"h","t","t","p","s",":","/","/","l","o","g","i","n",".","p","a","y","p","a","l",".","c","o","m",".","e","v","i","l",".","c","o","/","s","e","c","u","r","e","-","a">>
\* http://1.2.3.4/a
UrlIp ==
    <<"h","t","t","p",":","/","/","1",".","2",".","3",".","4","/","a">>
\* HTTPS://EXAMPLE.COM
UrlUpperScheme ==
    <<"H","T","T","P","S",":","/","/","E","X","A","M","P","L","E",".","C","O","M">>
\* httpbin.org
UrlHttpName ==
    <<"h","t","t","p","b","i","n",".","o","r","g">>
\* https://example.com/aaa...a, 110 characters
UrlLong ==
    UrlClean \o <<"/">> \o [i \in 1..90 |-> "a"]

Urls == { UrlClean, UrlShortener, UrlBare, UrlAt, UrlPhish, UrlIp,
          UrlUpperScheme, UrlHttpName, UrlLong }

----------------------------------------------------------------------------
(* phishingScanner: the environment and the external services *)

\* import.meta.env: undefined outside the bundler, else the three keys
\* ("" when the variable is not set)
Keys == { "", "k" }
Envs == [ defined : {TRUE}, google : Keys, ipqs : Keys, vt : Keys ]
        \cup { [ defined |-> FALSE, google |-> "", ipqs |-> "", vt |-> "" ] }

getGoogleApiKey(e) == e.google
getIpqsApiKey(e)   == e.ipqs
getVtApiKey(e)     == e.vt

\* reading a property of import.meta.env throws when env is undefined
KeyGetterThrows(e) == ~e.defined

ThreatLabels == { "MALWARE", "SOCIAL_ENGINEERING", "UNWANTED_SOFTWARE" }

RECURSIVE SeqsUpTo(_, _)
SeqsUpTo(S, n) ==
    IF n = 0 THEN { <<>> }
    ELSE LET shorter == SeqsUpTo(S, n - 1) IN
         shorter \cup { Append(q, x) : q \in shorter, x \in S }

\* what fetch + response.json() of the threat-match service produce:
\* an error (transport failure or unparsable body) or data.matches
NoMatches == <<>>
GoogleOutcomes ==
    { [status |-> "error", matches |-> NoMatches] }
    \cup [ status : {"ok"}, matches : SeqsUpTo(ThreatLabels, MaxMatches) ]

\* data.risk_score of the reputation service: absent, or a number
RiskScores == { {}, {0}, {25}, {26}, {75}, {76}, {100} }
NoIpqsData ==
    [risk_score |-> {}, malicious |-> FALSE, phishing |-> FALSE, suspicious |-> FALSE]
IpqsOutcomes ==
    { [status |-> "error", data |-> NoIpqsData] }
    \cup [ status : {"ok"},
           data : [ risk_score : RiskScores, malicious : BOOLEAN,
                    phishing : BOOLEAN, suspicious : BOOLEAN ] ]

\* last_analysis_stats.malicious of the multi-engine service
VtOutcomes ==
    { [status |-> "error", malicious |-> 0] }
    \cup [ status : {"ok"}, malicious : 0..MaxEngines ]

----------------------------------------------------------------------------
(* phishingScanner.scanUrl: the stages as functions of `results` *)

InitialResults(now) ==
    [ safe |-> TRUE, riskLevel |-> "low", threatTypes |-> <<>>,
      googleSafe |-> TRUE, domainReputation |-> "high", riskScore |-> 0,
      details |-> Plain(""), timestamp |-> now ]

FallbackResults(now) ==
    [ safe |-> FALSE, riskLevel |-> "high", threatTypes |-> <<"Scan failed">>,
      googleSafe |-> FALSE, domainReputation |-> "low", riskScore |-> 100,
      details |-> Plain("Unable to complete security scan"), timestamp |-> now ]

\* if (!basicCheck.safe) Object.assign(results, basicCheck)
\* the local verdict merged without its list of findings
ApplyBasic_NoThreats(res, check) ==
    IF ~check.safe
    THEN [res EXCEPT !.safe = check.safe,
                     !.riskLevel = check.riskLevel,
                     !.details = check.details]
    ELSE res

ApplyBasic(res, check) ==
    IF ~check.safe
    THEN [res EXCEPT !.safe = check.safe,
                     !.riskLevel = check.riskLevel,
                     !.threatTypes = check.threatTypes,
                     !.details = check.details]
    ELSE res

checkWithGoogle(matches) ==
    IF Len(matches) > 0
    THEN [ safe |-> FALSE, threatTypes |-> matches,
           details |-> Text("Google Safe Browsing: ", matches, ", ", " detected") ]
    ELSE [ safe |-> TRUE, threatTypes |-> <<>>,
           details |-> Plain("Google Safe Browsing: No threats found") ]

\* Object.assign(results, googleResult) without the guard
ApplyGoogle_Unguarded(res, googleResult) ==
    [res EXCEPT !.safe = googleResult.safe,
                !.riskLevel = IF googleResult.safe THEN "low" ELSE "high",
                !.googleSafe = googleResult.safe,
                !.threatTypes = googleResult.threatTypes,
                !.details = googleResult.details]

\* a match that does not record googleSafe
ApplyGoogle_NoFlag(res, googleResult) ==
    IF ~googleResult.safe
    THEN [res EXCEPT !.safe = FALSE,
                     !.riskLevel = "high",
                     !.threatTypes = googleResult.threatTypes,
                     !.details = googleResult.details]
    ELSE res

ApplyGoogle(res, googleResult) ==
    IF ~googleResult.safe
    THEN [res EXCEPT !.safe = FALSE,
                     !.riskLevel = "high",
                     !.googleSafe = FALSE,
                     !.threatTypes = googleResult.threatTypes,
                     !.details = googleResult.details]
    ELSE res

\* x > n for a possibly undefined x (undefined > n is false)
Gt(x, n) == \E v \in x : v > n
\* x || 0
OrZero(x) == IF \E v \in x : v # 0 THEN CHOOSE v \in x : TRUE ELSE 0

\* x >= n for a possibly undefined x
Ge(x, n) == \E v \in x : v >= n

\* the buckets with inclusive bounds
checkDomainReputation_Inclusive(data) ==
    [ reputation |-> IF Ge(data.risk_score, 75) THEN "low"
                     ELSE IF Ge(data.risk_score, 25) THEN "medium" ELSE "high",
      riskScore |-> OrZero(data.risk_score),
      isMalicious |-> data.malicious,
      isPhishing |-> data.phishing,
      isSuspicious |-> data.suspicious ]

checkDomainReputation(data) ==
    [ reputation |-> IF Gt(data.risk_score, 75) THEN "low"
                     ELSE IF Gt(data.risk_score, 25) THEN "medium" ELSE "high",
      riskScore |-> OrZero(data.risk_score),
      isMalicious |-> data.malicious,
      isPhishing |-> data.phishing,
      isSuspicious |-> data.suspicious ]

\* the suspicious flag treated like the malicious and phishing flags
ApplyIpqs_Suspicious(res, ipqsResult) ==
    LET flagged == IF ipqsResult.isMalicious \/ ipqsResult.isPhishing
                      \/ ipqsResult.isSuspicious
                   THEN [res EXCEPT !.safe = FALSE, !.riskLevel = "high"]
                   ELSE res
    IN  [flagged EXCEPT !.domainReputation = ipqsResult.reputation,
                        !.riskScore = ipqsResult.riskScore]

\* a flagged domain that clears safe and leaves riskLevel alone
ApplyIpqs_VerdictOnly(res, ipqsResult) ==
    LET flagged == IF ipqsResult.isMalicious \/ ipqsResult.isPhishing
                   THEN [res EXCEPT !.safe = FALSE]
                   ELSE res
    IN  [flagged EXCEPT !.domainReputation = ipqsResult.reputation,
                        !.riskScore = ipqsResult.riskScore]
ApplyIpqs(res, ipqsResult) ==
    LET flagged == IF ipqsResult.isMalicious \/ ipqsResult.isPhishing
                   THEN [res EXCEPT !.safe = FALSE, !.riskLevel = "high"]
                   ELSE res
    IN  [flagged EXCEPT !.domainReputation = ipqsResult.reputation,
                        !.riskScore = ipqsResult.riskScore]

\* engines that flag nothing clear the verdict
ApplyVt_ClearsOnZero(res, malicious) ==
    IF malicious > 0
    THEN [res EXCEPT !.safe = FALSE, !.riskLevel = "high"]
    ELSE [res EXCEPT !.safe = TRUE, !.riskLevel = "low"]
ApplyVt(res, malicious) ==
    IF malicious > 0
    THEN [res EXCEPT !.safe = FALSE, !.riskLevel = "high"]
    ELSE res

\* the guards of stages 2, 3 and 4
GoogleRuns(e, res) == getGoogleApiKey(e) # ""
\* stage 3 without the short-circuit
IpqsRuns_Always(e, res) == getIpqsApiKey(e) # ""
IpqsRuns(e, res)   == getIpqsApiKey(e) # "" /\ res.safe
\* stage 4 whenever its key is configured
VtRuns_Always(e, res) == getVtApiKey(e) # ""
VtRuns(e, res)     == getVtApiKey(e) # "" /\ res.riskLevel = "high"

\* details written only when no stage has set it
Finalize_KeepDetails(res) ==
    IF res.details # Plain("") THEN res
    ELSE [res EXCEPT !.details =
            IF res.safe
            THEN Plain("URL appears safe based on multiple checks")
            ELSE IF Len(res.threatTypes) > 0
                 THEN Text("! ", res.threatTypes, ", ", "")
                 ELSE Plain("! Potential security threat detected")]
Finalize(res) ==
    [res EXCEPT !.details =
        IF res.safe
        THEN Plain("URL appears safe based on multiple checks")
        ELSE IF Len(res.threatTypes) > 0
             THEN Text("! ", res.threatTypes, ", ", "")
             ELSE Plain("! Potential security threat detected")]

\* the try block that catches an exception thrown at a place of scanUrl:
\* the three service calls have their own try/catch, everything else is
\* inside the outer try only
\* no try/catch around the service calls
HandlerOf_OuterOnly(site) == "outer"

\* no outer try/catch
HandlerOf_StageOnly(site) ==
    IF site \in { "checkWithGoogle", "checkDomainReputation", "checkWithVirusTotal" }
    THEN "stage"
    ELSE "none"

HandlerOf(site) ==
    IF site \in { "checkWithGoogle", "checkDomainReputation", "checkWithVirusTotal" }
    THEN "stage"
    ELSE "outer"

----------------------------------------------------------------------------
(* phishingScanner.scanUrl: the call, one step per stage *)

Pending == "pending"
InitialLog ==
    [ google |-> [status |-> Pending, matches |-> NoMatches],
      ipqs   |-> [status |-> Pending, data |-> NoIpqsData],
      vt     |-> [status |-> Pending, malicious |-> 0],
      outer  |-> "none" ]

\* basicCheck before line 340 has run
NoBasicCheck ==
    [ safe |-> TRUE, riskLevel |-> "low", threatTypes |-> <<>>, details |-> Plain("") ]

\* checkStrength is not running
StrengthIdle ==
    /\ candidate = <<>>
    /\ spc = "idle"
    /\ assessment = [score |-> 0, strength |-> "weak", feedback |-> <<>>]

\* checkPasswordBreach is not running
BreachIdle ==
    /\ password = <<>>
    /\ cryptoOk = TRUE
    /\ bpc = "idle"
    /\ hash = [passwordHash |-> <<>>, prefix |-> <<>>, suffix |-> <<>>]
    /\ request = [base |-> "", arg |-> <<>>, userAgent |-> ""]
    /\ response = [status |-> "none", lines |-> <<>>, body |-> <<>>]
    /\ breach = [ isBreached |-> FALSE, breachCount |-> {0},
                  details |-> [text |-> "", count |-> {}] ]

\* normalizeUrl is not running
NormalizeIdle ==
    /\ raw = <<>>
    /\ npc = "idle"
    /\ normalized = <<>>
    /\ renormalized = <<>>

\* no call of checkPasswordBreach has returned yet
FirstCall ==
    /\ round = 1
    /\ earlier = [ isBreached |-> FALSE, breachCount |-> {0},
                   details |-> [text |-> "", count |-> {}] ]
    /\ backend = [status |-> "none", lines |-> <<>>, body |-> <<>>]

\* the PhishingScanner component is not mounted
ScannerIdle ==
    /\ history = <<>>
    /\ scanStats = [total |-> 0, safe |-> 0, unsafe |-> 0]
    /\ store = <<>>
    /\ delivered = <<>>
    /\ dpc = "idle"
    /\ scanId = 0
    /\ before = [history |-> <<>>, scanStats |-> [total |-> 0, safe |-> 0, unsafe |-> 0]]

\* the TodoManager component is not mounted
TodoIdle ==
    /\ tasks = <<>>
    /\ todoStore = <<>>
    /\ toggles = <<>>

\* generateStrongPassword is not running
GeneratorIdle ==
    /\ generated = <<>>
    /\ gpc = "idle"
    /\ rating = [score |-> 0, strength |-> "weak", feedback |-> <<>>]

ScanInit ==
    /\ url \in Urls
    /\ env \in Envs
    /\ pc = "basic"
    /\ basicCheck = NoBasicCheck
    /\ clock = 0
    /\ results = InitialResults(0)
    /\ log = InitialLog
    /\ calls = <<>>
    /\ BreachIdle
    /\ StrengthIdle
    /\ NormalizeIdle
    /\ FirstCall
    /\ ScannerIdle
    /\ TodoIdle
    /\ GeneratorIdle

\* an exception thrown at `site`; a stage-level catch resumes at nextPc
Throw(site, nextPc) ==
    CASE HandlerOf(site) = "stage" ->
            /\ pc' = nextPc
            /\ results' = results
      [] HandlerOf(site) = "outer" ->
            /\ pc' = "done"
            /\ results' = FallbackResults(clock')
      [] OTHER ->
            /\ pc' = "raised"
            /\ results' = results

\* 1. basic local check
BasicCheck ==
    /\ pc = "basic"
    /\ basicCheck' = basicUrlAnalysis(url)
    /\ results' = ApplyBasic(results, basicCheck')
    /\ pc' = "google"
    /\ UNCHANGED <<url, env, log, calls, clock>>
    /\ UNCHANGED breachVars
    /\ UNCHANGED strengthVars
    /\ UNCHANGED normVars
    /\ UNCHANGED twiceVars
    /\ UNCHANGED deleteVars
    /\ UNCHANGED todoVars
    /\ UNCHANGED genVars

\* this.getGoogleApiKey() with import.meta.env undefined
KeyGetterFails ==
    /\ pc = "google"
    /\ KeyGetterThrows(env)
    /\ UNCHANGED <<url, env, basicCheck, calls, clock>>
    /\ Throw("getGoogleApiKey", "ipqs")
    /\ log' = [log EXCEPT !.outer = "caught"]
    /\ UNCHANGED breachVars
    /\ UNCHANGED strengthVars
    /\ UNCHANGED normVars
    /\ UNCHANGED twiceVars
    /\ UNCHANGED deleteVars
    /\ UNCHANGED todoVars
    /\ UNCHANGED genVars

\* 2. threat-match service
GoogleSkip ==
    /\ pc = "google"
    /\ ~KeyGetterThrows(env)
    /\ ~GoogleRuns(env, results)
    /\ log' = [log EXCEPT !.google.status = "skipped"]
    /\ pc' = "ipqs"
    /\ UNCHANGED <<url, env, basicCheck, results, calls, clock>>
    /\ UNCHANGED breachVars
    /\ UNCHANGED strengthVars
    /\ UNCHANGED normVars
    /\ UNCHANGED twiceVars
    /\ UNCHANGED deleteVars
    /\ UNCHANGED todoVars
    /\ UNCHANGED genVars

GoogleCall ==
    /\ pc = "google"
    /\ ~KeyGetterThrows(env)
    /\ GoogleRuns(env, results)
    /\ calls' = Append(calls, "google")
    /\ clock' = clock + 1
    /\ \E o \in GoogleOutcomes :
        IF o.status = "error"
        THEN /\ Throw("checkWithGoogle", "ipqs")
             /\ log' = [log EXCEPT !.google = [status |-> "failed", matches |-> NoMatches]]
        ELSE /\ results' = ApplyGoogle(results, checkWithGoogle(o.matches))
             /\ log' = [log EXCEPT !.google = [status |-> "returned", matches |-> o.matches]]
             /\ pc' = "ipqs"
    /\ UNCHANGED <<url, env, basicCheck>>
    /\ UNCHANGED breachVars
    /\ UNCHANGED strengthVars
    /\ UNCHANGED normVars
    /\ UNCHANGED twiceVars
    /\ UNCHANGED deleteVars
    /\ UNCHANGED todoVars
    /\ UNCHANGED genVars

\* 3. domain-reputation service
IpqsSkip ==
    /\ pc = "ipqs"
    /\ ~IpqsRuns(env, results)
    /\ log' = [log EXCEPT !.ipqs.status = "skipped"]
    /\ pc' = "vt"
    /\ UNCHANGED <<url, env, basicCheck, results, calls, clock>>
    /\ UNCHANGED breachVars
    /\ UNCHANGED strengthVars
    /\ UNCHANGED normVars
    /\ UNCHANGED twiceVars
    /\ UNCHANGED deleteVars
    /\ UNCHANGED todoVars
    /\ UNCHANGED genVars

IpqsCall ==
    /\ pc = "ipqs"
    /\ IpqsRuns(env, results)
    /\ calls' = Append(calls, "ipqs")
    /\ clock' = clock + 1
    /\ \E o \in IpqsOutcomes :
        IF o.status = "error"
        THEN /\ Throw("checkDomainReputation", "vt")
             /\ log' = [log EXCEPT !.ipqs = [status |-> "failed", data |-> NoIpqsData]]
        ELSE /\ results' = ApplyIpqs(results, checkDomainReputation(o.data))
             /\ log' = [log EXCEPT !.ipqs = [status |-> "returned", data |-> o.data]]
             /\ pc' = "vt"
    /\ UNCHANGED <<url, env, basicCheck>>
    /\ UNCHANGED breachVars
    /\ UNCHANGED strengthVars
    /\ UNCHANGED normVars
    /\ UNCHANGED twiceVars
    /\ UNCHANGED deleteVars
    /\ UNCHANGED todoVars
    /\ UNCHANGED genVars

\* 4. multi-engine service
VtSkip ==
    /\ pc = "vt"
    /\ ~VtRuns(env, results)
    /\ log' = [log EXCEPT !.vt.status = "skipped"]
    /\ pc' = "final"
    /\ UNCHANGED <<url, env, basicCheck, results, calls, clock>>
    /\ UNCHANGED breachVars
    /\ UNCHANGED strengthVars
    /\ UNCHANGED normVars
    /\ UNCHANGED twiceVars
    /\ UNCHANGED deleteVars
    /\ UNCHANGED todoVars
    /\ UNCHANGED genVars

VtCall ==
    /\ pc = "vt"
    /\ VtRuns(env, results)
    /\ calls' = Append(calls, "vt")
    /\ clock' = clock + 1
    /\ \E o \in VtOutcomes :
        IF o.status = "error"
        THEN /\ Throw("checkWithVirusTotal", "final")
             /\ log' = [log EXCEPT !.vt = [status |-> "failed", malicious |-> 0]]
        ELSE /\ results' = ApplyVt(results, o.malicious)
             /\ log' = [log EXCEPT !.vt = [status |-> "returned", malicious |-> o.malicious]]
             /\ pc' = "final"
    /\ UNCHANGED <<url, env, basicCheck>>
    /\ UNCHANGED breachVars
    /\ UNCHANGED strengthVars
    /\ UNCHANGED normVars
    /\ UNCHANGED twiceVars
    /\ UNCHANGED deleteVars
    /\ UNCHANGED todoVars
    /\ UNCHANGED genVars

\* generate final details and return
FinalizeAndReturn ==
    /\ pc = "final"
    /\ results' = Finalize(results)
    /\ pc' = "done"
    /\ UNCHANGED <<url, env, basicCheck, log, calls, clock>>
    /\ UNCHANGED breachVars
    /\ UNCHANGED strengthVars
    /\ UNCHANGED normVars
    /\ UNCHANGED twiceVars
    /\ UNCHANGED deleteVars
    /\ UNCHANGED todoVars
    /\ UNCHANGED genVars

ScanNext ==
    \/ BasicCheck
    \/ KeyGetterFails
    \/ GoogleSkip
    \/ GoogleCall
    \/ IpqsSkip
    \/ IpqsCall
    \/ VtSkip
    \/ VtCall
    \/ FinalizeAndReturn

SpecScan == ScanInit /\ [][ScanNext]_vars

----------------------------------------------------------------------------
(* Properties of scanUrl *)

Returned       == pc = "done"
NormalPath     == log.outer = "none"
GoogleMatched  == log.google.status = "returned" /\ Len(log.google.matches) > 0
Rank(level)    == CASE level = "low" -> 0 [] level = "medium" -> 1 [] level = "high" -> 2
Stages         == { "google", "ipqs", "vt" }
StageFails(s)  == log[s].status = Pending /\ log'[s].status = "failed"

\* C1: on the normal path every threat recorded by basicUrlAnalysis is still
\* in the returned threatTypes, also when stage 2 reports a match.
C1_LocalThreatsKept ==
    (Returned /\ NormalPath) =>
        \A t \in Range(basicCheck.threatTypes) :
            t \in Range(results.threatTypes)

\* C2: across the steps of one run safe never goes from false back to true
\* and riskLevel never decreases.
C2_VerdictOnlyWorsens ==
    [][ /\ (~results.safe => ~results'.safe)
        /\ Rank(results'.riskLevel) >= Rank(results.riskLevel) ]_vars

\* a high verdict set before stage 4, and stage 4 answered "no engine flags it"
C2_Witness ==
    /\ Returned
    /\ NormalPath
    /\ results.riskLevel = "high"
    /\ ~results.safe
    /\ log.vt.status = "returned"
    /\ log.vt.malicious = 0

\* C3: the reputation service is queried exactly when its key is configured
\* and the assessment is still safe after stage 2; when it is not safe,
\* stage 3 leaves domainReputation and riskScore alone.
C3_ReputationShortCircuit ==
    [][ LET queried == "ipqs" \notin Range(calls) /\ "ipqs" \in Range(calls')
            due     == pc = "ipqs" /\ env.ipqs # "" /\ results.safe
        IN  /\ queried <=> due
            /\ (pc = "ipqs" /\ ~results.safe) =>
                  /\ results'.domainReputation = results.domainReputation
                  /\ results'.riskScore = results.riskScore
                  /\ results'.riskLevel = results.riskLevel ]_vars

\* stage 2 confirmed a threat, the reputation key is configured, stage 3 was
\* skipped
C3_Witness ==
    /\ Returned
    /\ GoogleMatched
    /\ env.ipqs # ""
    /\ log.ipqs.status = "skipped"
    /\ "ipqs" \notin Range(calls)
    /\ results.riskLevel = "high"

\* the result the local heuristic and the stages that returned determine
ExpectedResults ==
    LET r1 == ApplyBasic(InitialResults(0), basicCheck)
        r2 == IF log.google.status = "returned"
              THEN ApplyGoogle(r1, checkWithGoogle(log.google.matches)) ELSE r1
        r3 == IF log.ipqs.status = "returned"
              THEN ApplyIpqs(r2, checkDomainReputation(log.ipqs.data)) ELSE r2
        r4 == IF log.vt.status = "returned"
              THEN ApplyVt(r3, log.vt.malicious) ELSE r3
    IN  Finalize(r4)

\* C4: a failing call of stage 2, 3 or 4 does not raise, changes no field of
\* the assessment, and the returned result is the one the local heuristic and
\* the successful stages determine.
C4_FailOpen ==
    /\ [][ (\E s \in Stages : StageFails(s)) =>
              /\ results' = results
              /\ pc' \notin { "raised", "done" } ]_vars
    /\ [](pc # "raised")
    /\ []((Returned /\ NormalPath) => results = ExpectedResults)

\* stage 2 failed and stage 3 went on to answer
C4_Witness ==
    /\ Returned
    /\ log.google.status = "failed"
    /\ log.ipqs.status = "returned"

ResultFields ==
    { "safe", "riskLevel", "threatTypes", "googleSafe", "domainReputation",
      "riskScore", "details", "timestamp" }

\* C5: scanUrl never raises; what it returns is a complete assessment, and
\* after a failure outside the per-stage guards it is the maximal-risk
\* fallback.
C5_NeverThrowsComplete ==
    /\ pc # "raised"
    /\ Returned =>
        /\ DOMAIN results = ResultFields
        /\ results.safe \in BOOLEAN
        /\ results.riskLevel \in { "low", "medium", "high" }
        /\ results.googleSafe \in BOOLEAN
        /\ results.domainReputation \in { "high", "medium", "low" }
        /\ results.riskScore \in Int
        /\ results.timestamp \in Nat
        /\ ~NormalPath =>
            /\ ~results.safe
            /\ results.riskLevel = "high"
            /\ results.riskScore = 100
            /\ results.threatTypes = <<"Scan failed">>

\* a key getter threw after the local check had run, and scanUrl returned
C5_Witness ==
    /\ Returned
    /\ ~NormalPath
    /\ ~env.defined

\* C6 as stated: a match forces safe=false, riskLevel=high, googleSafe=false,
\* and googleSafe is true in every returned result where the signal did not
\* fire.
C6_GoogleSafeOriginal ==
    Returned =>
        /\ GoogleMatched =>
              (~results.safe /\ results.riskLevel = "high" /\ ~results.googleSafe)
        /\ ~GoogleMatched => results.googleSafe

\* C6 amended: a match forces safe=false, riskLevel=high, googleSafe=false;
\* googleSafe is true in every result returned through the normal path where
\* the signal did not fire; the fallback result carries googleSafe=false.
C6_GoogleSafe ==
    Returned =>
        /\ GoogleMatched =>
              (~results.safe /\ results.riskLevel = "high" /\ ~results.googleSafe)
        /\ (~GoogleMatched /\ NormalPath) => results.googleSafe
        /\ ~NormalPath => ~results.googleSafe

\* stage 2 ran and matched on a URL the local heuristic found clean
C6_Witness ==
    /\ Returned
    /\ GoogleMatched
    /\ basicCheck.safe
    /\ ~results.googleSafe

----------------------------------------------------------------------------
(* passwordStrengthChecker.sha1 *)

\* password
PwPassword == <<"p","a","s","s","w","o","r","d">>
\* blic
PwBlic == <<"b","l","i","c">>
\* admin
PwAdmin == <<"a","d","m","i","n">>

\* "password" and "blic" have SHA-1 digests with the same first five hex digits
Passwords == { PwPassword, PwBlic, PwAdmin }

\* crypto.subtle.digest('SHA-1', ...): the 20 bytes of the digest
Sha1Digest(str) ==
    CASE str = PwPassword ->
            <<91, 170, 97, 228, 201, 185, 63, 63, 6, 130, 37, 11, 108, 248, 51, 27, 126, 230, 143, 216>>
      [] str = PwBlic ->
            <<91, 170, 106, 185, 31, 50, 41, 2, 191, 252, 236, 92, 79, 194, 47, 45, 105, 118, 23, 54>>
      [] str = PwAdmin ->
            <<208, 51, 226, 42, 227, 72, 174, 181, 102, 15, 194, 20, 10, 236, 53, 133, 12, 77, 169, 151>>

HexDigits == <<"0","1","2","3","4","5","6","7","8","9","a","b","c","d","e","f">>

\* Number.prototype.toString(16) of a byte
toString16(b) ==
    IF b < 16 THEN << HexDigits[b + 1] >>
    ELSE << HexDigits[(b \div 16) + 1], HexDigits[(b % 16) + 1] >>

\* String.prototype.padStart(2, '0') of a string of one or two characters
padStart2(s) == IF Len(s) < 2 THEN <<"0">> \o s ELSE s

RECURSIVE JoinAll(_)
JoinAll(parts) ==
    IF parts = <<>> THEN <<>> ELSE Head(parts) \o JoinAll(Tail(parts))

sha1(str) ==
    LET hashArray == Sha1Digest(str) IN
    toUpperCase(JoinAll([i \in 1..Len(hashArray) |-> padStart2(toString16(hashArray[i]))]))

----------------------------------------------------------------------------
(* passwordStrengthChecker.checkPasswordBreach: parsing the range response *)

\* s.split(sep) for a one-character separator
RECURSIVE SplitFrom(_, _, _, _)
SplitFrom(s, sep, i, cur) ==
    IF i > Len(s) THEN << cur >>
    ELSE IF s[i] = sep THEN << cur >> \o SplitFrom(s, sep, i + 1, <<>>)
    ELSE SplitFrom(s, sep, i + 1, Append(cur, s[i]))

split(s, sep) == SplitFrom(s, sep, 1, <<>>)

\* hashes.find(hash => hash.startsWith(suffix)): {} is undefined
RECURSIVE FindFrom(_, _, _)
FindFrom(hashes, suffix, i) ==
    IF i > Len(hashes) THEN {}
    ELSE IF startsWith(hashes[i], suffix) THEN { hashes[i] }
    ELSE FindFrom(hashes, suffix, i + 1)

find(hashes, suffix) == FindFrom(hashes, suffix, 1)

\* found.split(':')[0]
CountField_First(found) ==
    LET fields == split(found, ":") IN
    IF Len(fields) >= 1 THEN { fields[1] } ELSE {}

\* found.split(':')[1]: {} is undefined
CountField(found) ==
    LET fields == split(found, ":") IN
    IF Len(fields) >= 2 THEN { fields[2] } ELSE {}

WhiteSpace == { " ", "\t", "\r", "\n" }

RECURSIVE SkipWhiteSpace(_)
SkipWhiteSpace(s) ==
    IF s # <<>> /\ Head(s) \in WhiteSpace THEN SkipWhiteSpace(Tail(s)) ELSE s

DigitValue(c) == CHOOSE v \in 0..9 : HexDigits[v + 1] = c

\* the value of the longest prefix of decimal digits of s[i..], continuing acc
RECURSIVE DigitsValue(_, _, _)
DigitsValue(s, i, acc) ==
    IF i <= Len(s) /\ s[i] \in Digits
    THEN DigitsValue(s, i + 1, 10 * acc + DigitValue(s[i]))
    ELSE acc

\* parseInt(x) for x undefined ({}) or a string ({s}); {} is NaN.
\* Leading white space is skipped, a sign is accepted, the digits up to the
\* first other character are read; NaN when there is no digit. (An argument
\* starting with 0x is not produced by the model's responses.)
parseInt(x) ==
    IF x = {} THEN {}
    ELSE LET s    == SkipWhiteSpace(CHOOSE str \in x : TRUE)
             neg  == s # <<>> /\ Head(s) = "-"
             body == IF s # <<>> /\ Head(s) \in { "-", "+" } THEN Tail(s) ELSE s
         IN  IF body = <<>> \/ Head(body) \notin Digits THEN {}
             ELSE { (IF neg THEN -1 ELSE 1) * DigitsValue(body, 1, 0) }

----------------------------------------------------------------------------
(* passwordStrengthChecker.checkPasswordBreach: the call *)

\* the three locals computed from the digest
HashParts(passwordHash) ==
    [ passwordHash |-> passwordHash,
      prefix |-> substring(passwordHash, 0, 5),
      suffix |-> toUpperCase(substringFrom(passwordHash, 5)) ]

NoHash == [passwordHash |-> <<>>, prefix |-> <<>>, suffix |-> <<>>]

\* fetch(`https://api.pwnedpasswords.com/range/${prefix}`, { headers })
\* a lookup keyed by the whole digest
BuildRequest_FullHash(h) ==
    [ base |-> "https://api.pwnedpasswords.com/range/",
      arg |-> h.passwordHash,
      userAgent |-> "MySpace-Security-App" ]

BuildRequest(h) ==
    [ base |-> "https://api.pwnedpasswords.com/range/",
      arg |-> h.prefix,
      userAgent |-> "MySpace-Security-App" ]

NoRequest == [base |-> "", arg |-> <<>>, userAgent |-> ""]

\* the returned object; count is the number interpolated into details
BreachResult(isBreached, breachCount, text, count) ==
    [ isBreached |-> isBreached, breachCount |-> breachCount,
      details |-> [text |-> text, count |-> count] ]

UnableToCheck == BreachResult(FALSE, {0}, "Unable to check breaches", {})
NoBreaches    == BreachResult(FALSE, {0}, "No breaches found", {})
NoResult      == BreachResult(FALSE, {0}, "", {})

\* lines 256-273: the result for a response body
\* a count that grows with the number of lookups made so far
ParseRange_CountsCalls(data, suffix) ==
    LET hashes == split(data, "\n")
        found  == find(hashes, suffix)
    IN  IF found # {}
        THEN LET breachCount ==
                    { n + (round - 1) :
                        n \in parseInt(CountField(CHOOSE line \in found : TRUE)) }
             IN  BreachResult(TRUE, breachCount, "Found in # data breaches!", breachCount)
        ELSE NoBreaches
ParseRange(data, suffix) ==
    LET hashes == split(data, "\n")
        found  == find(hashes, suffix)
    IN  IF found # {}
        THEN LET breachCount == parseInt(CountField(CHOOSE line \in found : TRUE))
             IN  BreachResult(TRUE, breachCount, "Found in # data breaches!", breachCount)
        ELSE NoBreaches

\* ---- the range service ----

\* the suffixes the service may list
SuffixPool == { HashParts(sha1(p)).suffix : p \in Passwords }

LineShapes ==
    { "count3", "count12cr", "lowercase", "nocolon", "emptycount", "negative", "longer" }

\* one line of a response: SUFFIX:COUNT, or a damaged variant of it
Line(sfx, shape) ==
    CASE shape = "count3"     -> sfx \o <<":", "3">>
      [] shape = "count12cr"  -> sfx \o <<":", "1", "2", "\r">>
      [] shape = "lowercase"  -> toLowerCase(sfx) \o <<":", "9">>
      [] shape = "nocolon"    -> sfx
      [] shape = "emptycount" -> sfx \o <<":">>
      [] shape = "negative"   -> sfx \o <<":", "-", "5">>
      [] shape = "longer"     -> sfx \o <<"A", ":", "7">>

Lines == { Line(sfx, shape) : sfx \in SuffixPool, shape \in LineShapes }

RECURSIVE JoinLines(_)
JoinLines(ls) ==
    IF ls = <<>> THEN <<>>
    ELSE IF Len(ls) = 1 THEN ls[1]
    ELSE ls[1] \o <<"\n">> \o JoinLines(Tail(ls))

NoResponse == [status |-> "none", lines |-> <<>>, body |-> <<>>]

ScanIdle ==
    /\ url = <<>>
    /\ env = [ defined |-> FALSE, google |-> "", ipqs |-> "", vt |-> "" ]
    /\ pc = "idle"
    /\ basicCheck = NoBasicCheck
    /\ clock = 0
    /\ results = InitialResults(0)
    /\ log = InitialLog
    /\ calls = <<>>

BreachInit ==
    /\ password \in Passwords
    /\ cryptoOk \in BOOLEAN
    /\ bpc = "hash"
    /\ hash = NoHash
    /\ request = NoRequest
    /\ response = NoResponse
    /\ breach = NoResult
    /\ ScanIdle
    /\ StrengthIdle
    /\ NormalizeIdle
    /\ FirstCall
    /\ ScannerIdle
    /\ TodoIdle
    /\ GeneratorIdle

\* an exception anywhere in the try block: the catch returns the degraded value
BreachCatch ==
    /\ breach' = UnableToCheck
    /\ bpc' = "done"

\* await this.sha1(password) and the two substrings
ComputeHash ==
    /\ bpc = "hash"
    /\ cryptoOk
    /\ hash' = HashParts(sha1(password))
    /\ bpc' = "fetch"
    /\ UNCHANGED <<password, cryptoOk, request, response, breach>>
    /\ UNCHANGED scanVars
    /\ UNCHANGED strengthVars
    /\ UNCHANGED normVars
    /\ UNCHANGED twiceVars
    /\ UNCHANGED deleteVars
    /\ UNCHANGED todoVars
    /\ UNCHANGED genVars

\* crypto.subtle is undefined (page not served from a secure context)
HashFails ==
    /\ bpc = "hash"
    /\ ~cryptoOk
    /\ BreachCatch
    /\ UNCHANGED <<password, cryptoOk, hash, request, response>>
    /\ UNCHANGED scanVars
    /\ UNCHANGED strengthVars
    /\ UNCHANGED normVars
    /\ UNCHANGED twiceVars
    /\ UNCHANGED deleteVars
    /\ UNCHANGED todoVars
    /\ UNCHANGED genVars

SendRequest ==
    /\ bpc = "fetch"
    /\ request' = BuildRequest(hash)
    /\ bpc' = "await"
    /\ UNCHANGED <<password, cryptoOk, hash, response, breach>>
    /\ UNCHANGED scanVars
    /\ UNCHANGED strengthVars
    /\ UNCHANGED normVars
    /\ UNCHANGED twiceVars
    /\ UNCHANGED deleteVars
    /\ UNCHANGED todoVars
    /\ UNCHANGED genVars

\* what the range service does: anything on the first call, and on a second
\* call what it did on the first
ServiceAnswers(status) == round = 1 \/ backend.status = status
ServiceLines == IF round = 1 THEN SeqsUpTo(Lines, MaxLines) ELSE { backend.lines }

\* fetch rejects (transport error)
FetchRejects ==
    /\ bpc = "await"
    /\ ServiceAnswers("network_error")
    /\ response' = [status |-> "network_error", lines |-> <<>>, body |-> <<>>]
    /\ BreachCatch
    /\ UNCHANGED <<password, cryptoOk, hash, request>>
    /\ UNCHANGED scanVars
    /\ UNCHANGED strengthVars
    /\ UNCHANGED normVars
    /\ UNCHANGED twiceVars
    /\ UNCHANGED deleteVars
    /\ UNCHANGED todoVars
    /\ UNCHANGED genVars

\* if (!response.ok) throw
ResponseNotOk ==
    /\ bpc = "await"
    /\ ServiceAnswers("http_error")
    /\ response' = [status |-> "http_error", lines |-> <<>>, body |-> <<>>]
    /\ BreachCatch
    /\ UNCHANGED <<password, cryptoOk, hash, request>>
    /\ UNCHANGED scanVars
    /\ UNCHANGED strengthVars
    /\ UNCHANGED normVars
    /\ UNCHANGED twiceVars
    /\ UNCHANGED deleteVars
    /\ UNCHANGED todoVars
    /\ UNCHANGED genVars

ResponseOk ==
    /\ bpc = "await"
    /\ ServiceAnswers("ok")
    /\ \E ls \in ServiceLines :
        LET data == JoinLines(ls) IN
        /\ response' = [status |-> "ok", lines |-> ls, body |-> data]
        /\ breach' = ParseRange(data, hash.suffix)
    /\ bpc' = "done"
    /\ UNCHANGED <<password, cryptoOk, hash, request>>
    /\ UNCHANGED scanVars
    /\ UNCHANGED strengthVars
    /\ UNCHANGED normVars
    /\ UNCHANGED twiceVars
    /\ UNCHANGED deleteVars
    /\ UNCHANGED todoVars
    /\ UNCHANGED genVars

BreachNext ==
    \/ ComputeHash
    \/ HashFails
    \/ SendRequest
    \/ FetchRejects
    \/ ResponseNotOk
    \/ ResponseOk

SpecBreach == BreachInit /\ [][BreachNext]_vars

----------------------------------------------------------------------------
(* Properties of checkPasswordBreach *)

BreachReturned == bpc = "done"

HexChars == Range(HexDigits) \cup { "A", "B", "C", "D", "E", "F" }
SuffixLen == 35

\* a SUFFIX:COUNT line: 35 hex digits, a colon, a decimal count, and
\* possibly the carriage return of a CRLF line end
WellFormedLine(line) ==
    /\ Len(line) >= SuffixLen + 2
    /\ \A i \in 1..SuffixLen : line[i] \in HexChars
    /\ line[SuffixLen + 1] = ":"
    /\ LET last == IF line[Len(line)] = "\r" THEN Len(line) - 1 ELSE Len(line)
       IN  /\ last >= SuffixLen + 2
           /\ \A i \in (SuffixLen + 2)..last : line[i] \in Digits

LineSuffix(line) == SubSeq(line, 1, SuffixLen)
LineCount(line)  == DigitsValue(line, SuffixLen + 2, 0)

WellFormedResponse ==
    /\ response.status = "ok"
    /\ \A i \in 1..Len(response.lines) : WellFormedLine(response.lines[i])

\* the well-formed lines whose SUFFIX is the computed suffix
Confirming ==
    { i \in 1..Len(response.lines) :
        /\ WellFormedLine(response.lines[i])
        /\ LineSuffix(response.lines[i]) = hash.suffix }

CheckFailed ==
    \/ ~cryptoOk
    \/ response.status \in { "network_error", "http_error" }
    \/ response.status = "ok" /\ ~WellFormedResponse

\* C7: checkPasswordBreach never raises; on a transport error, a non-success
\* status or a malformed response it returns the "unable to check" result,
\* and it reports isBreached=true only for a breach the response confirms.
C7_DegradedOnFailure ==
    /\ bpc # "raised"
    /\ BreachReturned =>
        /\ CheckFailed => breach = UnableToCheck
        /\ breach.isBreached => Confirming # {}

\* C8: the request carries the 5-character prefix of the uppercase SHA-1 hex
\* digest and nothing else derived from the password: any password whose
\* digest has the same prefix produces the identical request.
C8_PrefixOnly ==
    request # NoRequest =>
        /\ Len(request.arg) = 5
        /\ request.arg = SubSeq(sha1(password), 1, 5)
        /\ request.base = "https://api.pwnedpasswords.com/range/"
        /\ request.userAgent = "MySpace-Security-App"
        /\ \A p \in Passwords :
              SubSeq(sha1(p), 1, 5) = SubSeq(sha1(password), 1, 5) =>
                  BuildRequest(HashParts(sha1(p))) = request

\* the request for "blic" is out, and "password" has the same prefix
C8_Witness ==
    /\ BreachReturned
    /\ password = PwBlic
    /\ request # NoRequest
    /\ request.arg = SubSeq(sha1(PwPassword), 1, 5)
    /\ sha1(PwPassword) # sha1(PwBlic)

\* C9: for a successful response of SUFFIX:COUNT lines, isBreached is true
\* iff some line has exactly the computed suffix, breachCount is then the
\* COUNT of such a line, and otherwise isBreached=false and breachCount=0.
C9_ExactMatch ==
    (BreachReturned /\ WellFormedResponse) =>
        /\ breach.isBreached <=> Confirming # {}
        /\ breach.isBreached =>
              \E i \in Confirming : breach.breachCount = { LineCount(response.lines[i]) }
        /\ ~breach.isBreached => breach.breachCount = {0}

\* the second line of a two-line response is the one that matches
C9_Witness ==
    /\ BreachReturned
    /\ WellFormedResponse
    /\ Len(response.lines) = 2
    /\ Confirming = {2}
    /\ breach.isBreached
    /\ breach.breachCount = {12}

\* C10: breachCount is a non-negative integer in every returned result, and
\* it is 0 whenever isBreached is false.
C10_CountNonNegative ==
    BreachReturned =>
        /\ Cardinality(breach.breachCount) = 1
        /\ \A n \in breach.breachCount : n >= 0
        /\ ~breach.isBreached => breach.breachCount = {0}

----------------------------------------------------------------------------
(* passwordStrengthChecker.checkStrength *)

\* /[A-Z]/, /[a-z]/, /[0-9]/, /[^A-Za-z0-9]/ .test(password)
HasUpper(pw)  == \E i \in 1..Len(pw) : pw[i] \in Range(UpperLetters)
HasLower(pw)  == \E i \in 1..Len(pw) : pw[i] \in Range(LowerLetters)
HasDigit(pw)  == \E i \in 1..Len(pw) : pw[i] \in Digits
HasSymbol(pw) ==
    \E i \in 1..Len(pw) :
        pw[i] \notin Range(UpperLetters) \cup Range(LowerLetters) \cup Digits

commonPasswords ==
    { <<"p","a","s","s","w","o","r","d">>,
      <<"1","2","3","4","5","6">>,
      <<"q","w","e","r","t","y">>,
      <<"a","d","m","i","n">>,
      <<"w","e","l","c","o","m","e">>,
      <<"p","a","s","s","w","o","r","d","1","2","3">> }

\* commonPasswords.includes(password)
IsCommon_CaseSensitive(pw) == pw \in commonPasswords

\* commonPasswords.includes(password.toLowerCase())
\* a password that begins with an entry of the list counts as common
IsCommon_Prefix(pw) == \E c \in commonPasswords : startsWith(toLowerCase(pw), c)
IsCommon(pw) == toLowerCase(pw) \in commonPasswords

\* the first length test off by one
LengthPoints_OffByOne(pw) ==
    (IF Len(pw) >= 7 THEN 1 ELSE 0) + (IF Len(pw) >= 12 THEN 1 ELSE 0)

\* the two length tests chained with else
LengthPoints_ElseIf(pw) ==
    IF Len(pw) >= 12 THEN 1 ELSE IF Len(pw) >= 8 THEN 1 ELSE 0

\* the two length tests of lines 202-203
LengthPoints(pw) ==
    (IF Len(pw) >= 8 THEN 1 ELSE 0) + (IF Len(pw) >= 12 THEN 1 ELSE 0)

\* the four character-class tests of lines 206-216
ClassPoints(pw) ==
    (IF HasUpper(pw) THEN 1 ELSE 0) + (IF HasLower(pw) THEN 1 ELSE 0)
    + (IF HasDigit(pw) THEN 1 ELSE 0) + (IF HasSymbol(pw) THEN 1 ELSE 0)

\* strong only above 5
StrengthOf_Strict(score) ==
    IF score > 5 THEN "strong" ELSE IF score >= 3 THEN "medium" ELSE "weak"

\* lines 224-234: the tier of a score
StrengthOf(score) ==
    IF score >= 5 THEN "strong" ELSE IF score >= 3 THEN "medium" ELSE "weak"

\* the line pushed together with the tier
SummaryLine(strength) ==
    CASE strength = "strong" -> "Strong password!"
      [] strength = "medium" -> "Medium strength - could be stronger"
      [] strength = "weak"   -> "Weak password - consider improving"

\* the common-password test done first
Findings_CommonFirst(pw) ==
    (IF IsCommon(pw)
     THEN <<"Very common password - choose something unique">> ELSE <<>>)
    \o (IF Len(pw) < 8 THEN <<"Should be at least 8 characters">> ELSE <<>>)
    \o (IF HasUpper(pw) THEN <<>> ELSE <<"Add uppercase letters">>)
    \o (IF HasLower(pw) THEN <<>> ELSE <<"Add lowercase letters">>)
    \o (IF HasDigit(pw) THEN <<>> ELSE <<"Add numbers">>)
    \o (IF HasSymbol(pw) THEN <<>> ELSE <<"Add special characters (!@#$%)">>)

\* the feedback.push calls of lines 204-222, in program order
Findings(pw) ==
    (IF Len(pw) < 8 THEN <<"Should be at least 8 characters">> ELSE <<>>)
    \o (IF HasUpper(pw) THEN <<>> ELSE <<"Add uppercase letters">>)
    \o (IF HasLower(pw) THEN <<>> ELSE <<"Add lowercase letters">>)
    \o (IF HasDigit(pw) THEN <<>> ELSE <<"Add numbers">>)
    \o (IF HasSymbol(pw) THEN <<>> ELSE <<"Add special characters (!@#$%)">>)
    \o (IF IsCommon(pw)
        THEN <<"Very common password - choose something unique">> ELSE <<>>)

checkStrength(pw) ==
    LET score    == IF IsCommon(pw) THEN 0 ELSE LengthPoints(pw) + ClassPoints(pw)
        strength == StrengthOf(score)
    IN  [ score |-> score,
          strength |-> strength,
          feedback |-> Append(Findings(pw), SummaryLine(strength)) ]

----------------------------------------------------------------------------
(* The passwords checkStrength is run on *)

\* Password
PwUpperFirst == <<"P","a","s","s","w","o","r","d">>
\* PASSWORD123
PwAllUpper == <<"P","A","S","S","W","O","R","D","1","2","3">>
\* AdMiN
PwAdminMixed == <<"A","d","M","i","N">>
\* QWERTY
PwQwertyUpper == <<"Q","W","E","R","T","Y">>
\* Password123!
PwNearMiss == <<"P","a","s","s","w","o","r","d","1","2","3","!">>
\* password1
PwNearMiss1 == <<"p","a","s","s","w","o","r","d","1">>
\* Tr0ub4dor&Horse
PwLongStrong == <<"T","r","0","u","b","4","d","o","r","&","H","o","r","s","e">>

\* one character of each class
ClassChars == { "a", "B", "3", "!" }
\* a password is a core of up to MaxCore class characters followed by a run
\* of one padding character, so that the lengths around 8 and 12 occur
PadChars == { "x", "7" }
PadLengths == { 0, 3, 4, 7, 8 }

Candidates ==
    { core \o [i \in 1..n |-> c] :
        core \in SeqsUpTo(ClassChars, MaxCore), n \in PadLengths, c \in PadChars }
    \cup commonPasswords
    \cup { PwUpperFirst, PwAllUpper, PwAdminMixed, PwQwertyUpper, PwNearMiss, PwNearMiss1, PwLongStrong }

----------------------------------------------------------------------------
(* passwordStrengthChecker.checkStrength: the call *)

StrengthInit ==
    /\ candidate \in Candidates
    /\ spc = "call"
    /\ assessment = [score |-> 0, strength |-> "weak", feedback |-> <<>>]
    /\ ScanIdle
    /\ BreachIdle
    /\ NormalizeIdle
    /\ FirstCall
    /\ ScannerIdle
    /\ TodoIdle
    /\ GeneratorIdle

CheckStrength ==
    /\ spc = "call"
    /\ assessment' = checkStrength(candidate)
    /\ spc' = "done"
    /\ UNCHANGED candidate
    /\ UNCHANGED scanVars
    /\ UNCHANGED breachVars
    /\ UNCHANGED normVars
    /\ UNCHANGED twiceVars
    /\ UNCHANGED deleteVars
    /\ UNCHANGED todoVars
    /\ UNCHANGED genVars

StrengthNext == CheckStrength

SpecStrength == StrengthInit /\ [][StrengthNext]_vars

----------------------------------------------------------------------------
(* Properties of checkStrength *)

StrengthReturned == spc = "done"

\* the class of one character
CharClass(c) ==
    IF c \in Range(UpperLetters) THEN "upper"
    ELSE IF c \in Range(LowerLetters) THEN "lower"
    ELSE IF c \in Digits THEN "digit"
    ELSE "symbol"

ClassesOf(pw) == { CharClass(pw[i]) : i \in 1..Len(pw) }

\* pw equals an entry of the common-password list up to letter case
OnCommonList(pw) ==
    \E w \in commonPasswords :
        /\ Len(w) = Len(pw)
        /\ \A i \in 1..Len(w) : ToLowerChar(pw[i]) = w[i]

\* C11: a password that equals an entry of the common-password list up to
\* letter case gets score 0 and strength weak, whatever its length and
\* character classes, and the feedback has the very-common-password entry.
C11_CommonForcesZero ==
    (StrengthReturned /\ OnCommonList(candidate)) =>
        /\ assessment.score = 0
        /\ assessment.strength = "weak"
        /\ "Very common password - choose something unique"
              \in Range(assessment.feedback)

\* PASSWORD123: eleven characters of two classes, three points before the
\* override
C11_Witness ==
    /\ StrengthReturned
    /\ candidate = PwAllUpper
    /\ candidate \notin commonPasswords
    /\ Len(candidate) >= 8
    /\ assessment.score = 0

\* C12: the score is an integer in 0..6 and the strength follows from it:
\* strong iff score >= 5, medium iff 3 <= score < 5, weak iff score < 3.
C12_ScoreAndTiers ==
    StrengthReturned =>
        /\ assessment.score \in 0..6
        /\ assessment.strength = "strong" <=> assessment.score >= 5
        /\ assessment.strength = "medium" <=>
              (3 <= assessment.score /\ assessment.score < 5)
        /\ assessment.strength = "weak" <=> assessment.score < 3

\* a score exactly at the lower edge of strong
C12_Witness ==
    /\ StrengthReturned
    /\ assessment.score = 5
    /\ assessment.strength = "strong"

\* shorter than 8 characters and at most one character class
ShortNoDiversity(pw) == Len(pw) < 8 /\ Cardinality(ClassesOf(pw)) <= 1

\* C13 as stated: length < 8 and no character-class diversity give score 0
\* and strength weak.
C13_ShortUniformOriginal ==
    (StrengthReturned /\ ShortNoDiversity(candidate)) =>
        /\ assessment.score = 0
        /\ assessment.strength = "weak"

\* C13 amended: length < 8 and no character-class diversity give strength
\* weak and a score of at most 1: 1 for the one class present, 0 when the
\* password is empty or on the common-password list.
C13_ShortUniform ==
    (StrengthReturned /\ ShortNoDiversity(candidate)) =>
        /\ assessment.strength = "weak"
        /\ assessment.score =
              IF candidate = <<>> \/ OnCommonList(candidate) THEN 0 ELSE 1

\* seven characters of one class, not on the list
C13_Witness ==
    /\ StrengthReturned
    /\ ShortNoDiversity(candidate)
    /\ Len(candidate) = 7
    /\ ~OnCommonList(candidate)
    /\ assessment.score = 1

\* C14: length >= 12 with an uppercase letter, a lowercase letter, a digit
\* and a symbol, not on the common-password list: score 6, strength strong.
C14_LongDiverseIsSix ==
    ( /\ StrengthReturned
      /\ Len(candidate) >= 12
      /\ ClassesOf(candidate) = { "upper", "lower", "digit", "symbol" }
      /\ ~OnCommonList(candidate) ) =>
        /\ assessment.score = 6
        /\ assessment.strength = "strong"

\* exactly twelve characters with all four classes
C14_Witness ==
    /\ StrengthReturned
    /\ Len(candidate) = 12
    /\ ClassesOf(candidate) = { "upper", "lower", "digit", "symbol" }
    /\ assessment.score = 6

\* the findings in evaluation order, and the summary lines
FindingOrder ==
    << "Should be at least 8 characters",
       "Add uppercase letters",
       "Add lowercase letters",
       "Add numbers",
       "Add special characters (!@#$%)",
       "Very common password - choose something unique" >>

SummaryLines ==
    { "Strong password!", "Medium strength - could be stronger",
      "Weak password - consider improving" }

OrderIndex(f) == CHOOSE k \in 1..Len(FindingOrder) : FindingOrder[k] = f

\* C15: the feedback is never empty, lists findings in the fixed evaluation
\* order, and ends with exactly one summary line, the one of the returned
\* strength.
C15_FeedbackOrder ==
    StrengthReturned =>
        LET fb == assessment.feedback
            n  == Len(fb)
        IN  /\ n >= 1
            /\ fb[n] = ( CASE assessment.strength = "strong" -> "Strong password!"
                           [] assessment.strength = "medium" ->
                                "Medium strength - could be stronger"
                           [] assessment.strength = "weak" ->
                                "Weak password - consider improving" )
            /\ \A i \in 1..(n-1) : fb[i] \in Range(FindingOrder)
            /\ \A i \in 1..(n-1), j \in 1..(n-1) :
                  i < j => OrderIndex(fb[i]) < OrderIndex(fb[j])

\* a common password: four findings, the common-password entry, the summary
C15_Witness ==
    /\ StrengthReturned
    /\ Len(assessment.feedback) = 6
    /\ assessment.feedback[5] = "Very common password - choose something unique"
    /\ assessment.feedback[6] \in SummaryLines

----------------------------------------------------------------------------
(* Properties of basicUrlAnalysis and of stages 3 and 4 of scanUrl *)

\* the number of local findings of u: patterns that match, the non-HTTPS
\* flag and the length flag
NumFindings(u) ==
    Cardinality({ k \in 1..Len(suspiciousPatterns(u)) : suspiciousPatterns(u)[k].hit })
    + (IF startsWith(u, HttpsPrefix) THEN 0 ELSE 1)
    + (IF Len(u) > LongUrlLimit THEN 1 ELSE 0)

\* C16: basicUrlAnalysis turns the number n of local findings into the
\* verdict: n = 0 safe/low with no threatTypes, n in 1..2 unsafe/medium,
\* n >= 3 unsafe/high; threatTypes has n entries.
C16_FindingsToVerdict ==
    pc = "google" =>
        LET n == NumFindings(url) IN
        /\ Len(basicCheck.threatTypes) = n
        /\ n = 0 => (basicCheck.safe /\ basicCheck.riskLevel = "low"
                     /\ basicCheck.threatTypes = <<>>)
        /\ (1 <= n /\ n <= 2) => (~basicCheck.safe /\ basicCheck.riskLevel = "medium")
        /\ n >= 3 => (~basicCheck.safe /\ basicCheck.riskLevel = "high")

\* a URL with exactly two findings: still medium
C16_Witness ==
    /\ pc = "google"
    /\ Len(basicCheck.threatTypes) = 2
    /\ basicCheck.riskLevel = "medium"

NoCredentials ==
    env.defined /\ env.google = "" /\ env.ipqs = "" /\ env.vt = ""

Bucket(score) ==
    IF score > 75 THEN "low" ELSE IF score > 25 THEN "medium" ELSE "high"
ScoreOrZero(x) == IF x = {} THEN 0 ELSE CHOOSE v \in x : TRUE

\* C18: once the reputation call has returned, riskScore is the service's
\* score (0 when absent) and domainReputation its inverted bucket, whatever
\* the malicious, phishing and suspicious flags are.
C18_ReputationRecorded ==
    (NormalPath /\ log.ipqs.status = "returned") =>
        /\ results.riskScore = ScoreOrZero(log.ipqs.data.risk_score)
        /\ results.domainReputation = Bucket(ScoreOrZero(log.ipqs.data.risk_score))

\* a score of exactly 75 with the malicious flag set: medium reputation
C18_Witness ==
    /\ Returned
    /\ log.ipqs.status = "returned"
    /\ log.ipqs.data.risk_score = {75}
    /\ log.ipqs.data.malicious
    /\ results.domainReputation = "medium"
    /\ results.riskScore = 75

IpqsReturns == log.ipqs.status = Pending /\ log'.ipqs.status = "returned"

\* C19: the step in which the reputation call returns sets safe=false and
\* riskLevel=high if the malicious or the phishing flag is set, and else
\* leaves safe and riskLevel as they were, whatever the score and the
\* suspicious flag.
C19_ReputationFlags ==
    [][ IpqsReturns =>
          IF log'.ipqs.data.malicious \/ log'.ipqs.data.phishing
          THEN ~results'.safe /\ results'.riskLevel = "high"
          ELSE results'.safe = results.safe
               /\ results'.riskLevel = results.riskLevel ]_vars

\* score 100 and suspicious, but neither malicious nor phishing: still safe
C19_Witness ==
    /\ Returned
    /\ log.ipqs.status = "returned"
    /\ log.ipqs.data.risk_score = {100}
    /\ log.ipqs.data.suspicious
    /\ ~log.ipqs.data.malicious
    /\ ~log.ipqs.data.phishing
    /\ results.safe
    /\ results.riskLevel = "low"

\* C20: the multi-engine service is invoked only from stage 4 with its key
\* configured and riskLevel already high, and stage 4 changes neither safe
\* nor riskLevel.
C20_CorroborateOnly ==
    [][ /\ ("vt" \notin Range(calls) /\ "vt" \in Range(calls')) =>
              (pc = "vt" /\ env.vt # "" /\ results.riskLevel = "high" /\ ~results.safe)
        /\ pc = "vt" =>
              (results'.safe = results.safe /\ results'.riskLevel = results.riskLevel) ]_vars

\* stage 4 ran and engines flagged the URL
C20_Witness ==
    /\ Returned
    /\ log.vt.status = "returned"
    /\ log.vt.malicious > 0
    /\ "vt" \in Range(calls)

----------------------------------------------------------------------------
(* Properties of the finalization of scanUrl *)

\* the details texts the stages before finalization can have written
StageDetails ==
    { basicCheck.details }
    \cup (IF log.google.status = "returned"
          THEN { checkWithGoogle(log.google.matches).details } ELSE {})

\* C21: in a result returned through the normal path, details is the generic
\* "appears safe" message when safe is true, else the threatTypes joined with
\* ", ", or the generic "potential threat" message when threatTypes is empty;
\* it is never the text an earlier stage wrote.
C21_FinalDetails ==
    (Returned /\ NormalPath) =>
        /\ results.safe =>
              results.details = Plain("URL appears safe based on multiple checks")
        /\ (~results.safe /\ Len(results.threatTypes) > 0) =>
              results.details = Text("! ", results.threatTypes, ", ", "")
        /\ (~results.safe /\ Len(results.threatTypes) = 0) =>
              results.details = Plain("! Potential security threat detected")
        /\ results.details \notin StageDetails

\* the local check and stage 2 both wrote details, and the returned details is
\* the joined list of stage 2's threat types
C21_Witness ==
    /\ Returned
    /\ NormalPath
    /\ ~basicCheck.safe
    /\ GoogleMatched
    /\ results.details = Text("! ", log.google.matches, ", ", "")

----------------------------------------------------------------------------
(* phishingScanner.normalizeUrl *)

HttpWord == <<"h","t","t","p">>
HttpSlashes == <<"h","t","t","p",":","/","/">>

\* url.startsWith('http') ? url : `http://${url}`
normalizeUrl(u) ==
    IF startsWith(u, HttpWord) THEN u ELSE HttpSlashes \o u

\* the inputs: an optional scheme, a host, an optional path
NoScheme == <<>>
InputSchemes ==
    { NoScheme,
      <<"h","t","t","p",":","/","/">>,
      <<"h","t","t","p","s",":","/","/">>,
      <<"f","t","p",":","/","/">>,
      <<"H","T","T","P",":","/","/">> }
\* example.com, httpbin.org, http.cat, bit.ly, 10.0.0.1, www.https-site.io
InputHosts ==
    { <<"e","x","a","m","p","l","e",".","c","o","m">>,
      <<"h","t","t","p","b","i","n",".","o","r","g">>,
      <<"h","t","t","p",".","c","a","t">>,
      <<"b","i","t",".","l","y">>,
      <<"1","0",".","0",".","0",".","1">>,
      <<"w","w","w",".","h","t","t","p","s","-","s","i","t","e",".","i","o">> }
\* nothing, /a, /r?u=http://x.y
InputPaths ==
    { <<>>,
      <<"/","a">>,
      <<"/","r","?","u","=","h","t","t","p",":","/","/","x",".","y">> }
RawInputs == { s \o h \o p : s \in InputSchemes, h \in InputHosts, p \in InputPaths }

NormalizeInit ==
    /\ raw \in RawInputs
    /\ npc = "call"
    /\ normalized = <<>>
    /\ renormalized = <<>>
    /\ ScanIdle
    /\ BreachIdle
    /\ StrengthIdle
    /\ FirstCall
    /\ ScannerIdle
    /\ TodoIdle
    /\ GeneratorIdle

\* this.normalizeUrl(url)
NormalizeUrl ==
    /\ npc = "call"
    /\ normalized' = normalizeUrl(raw)
    /\ npc' = "once"
    /\ UNCHANGED <<raw, renormalized>>
    /\ UNCHANGED scanVars
    /\ UNCHANGED breachVars
    /\ UNCHANGED strengthVars
    /\ UNCHANGED twiceVars
    /\ UNCHANGED deleteVars
    /\ UNCHANGED todoVars
    /\ UNCHANGED genVars

\* normalizeUrl applied to its own result
NormalizeAgain ==
    /\ npc = "once"
    /\ renormalized' = normalizeUrl(normalized)
    /\ npc' = "twice"
    /\ UNCHANGED <<raw, normalized>>
    /\ UNCHANGED scanVars
    /\ UNCHANGED breachVars
    /\ UNCHANGED strengthVars
    /\ UNCHANGED twiceVars
    /\ UNCHANGED deleteVars
    /\ UNCHANGED todoVars
    /\ UNCHANGED genVars

NormalizeNext ==
    \/ NormalizeUrl
    \/ NormalizeAgain

SpecNormalize == NormalizeInit /\ [][NormalizeNext]_vars

----------------------------------------------------------------------------
(* Properties of normalizeUrl *)

SchemeChars ==
    Range(UpperLetters) \cup Range(LowerLetters) \cup Digits \cup { "+", "-", "." }

\* s begins with a scheme: a letter, scheme characters, then "://"
HasScheme(s) ==
    \E i \in 2..Len(s) :
        /\ HasAt(s, i, <<":","/","/">>)
        /\ s[1] \in Range(UpperLetters) \cup Range(LowerLetters)
        /\ \A k \in 1..(i - 1) : s[k] \in SchemeChars

\* C22: normalizeUrl returns an input that carries a scheme unchanged, returns
\* "http://" followed by the input for every input without a scheme (bare
\* domains whose name begins with "http" included), and is idempotent.
C22_NormalizeUrl ==
    /\ npc \in { "once", "twice" } =>
          /\ HasScheme(raw) => normalized = raw
          /\ ~HasScheme(raw) => normalized = HttpSlashes \o raw
    /\ npc = "twice" => renormalized = normalized

----------------------------------------------------------------------------
(* passwordStrengthChecker.checkPasswordBreach called twice *)

\* the caller invokes checkPasswordBreach(password) again once the first call
\* has returned: the locals of the call are fresh, nothing else is kept
CallAgain ==
    /\ bpc = "done"
    /\ round = 1
    /\ round' = 2
    /\ earlier' = breach
    /\ backend' = response
    /\ bpc' = "hash"
    /\ hash' = NoHash
    /\ request' = NoRequest
    /\ response' = NoResponse
    /\ breach' = NoResult
    /\ UNCHANGED <<password, cryptoOk>>
    /\ UNCHANGED scanVars
    /\ UNCHANGED strengthVars
    /\ UNCHANGED normVars
    /\ UNCHANGED deleteVars
    /\ UNCHANGED todoVars
    /\ UNCHANGED genVars

BreachTwiceNext ==
    \/ ComputeHash
    \/ HashFails
    \/ SendRequest
    \/ FetchRejects
    \/ ResponseNotOk
    \/ ResponseOk
    \/ CallAgain

SpecBreachTwice == BreachInit /\ [][BreachTwiceNext]_vars

----------------------------------------------------------------------------
(* Properties of two calls of checkPasswordBreach *)

----------------------------------------------------------------------------
(* PhishingScanner component: history, scanStats and deleteScan *)

\* the scans a user's collection can hold: distinct ids, newest first
ScanRecords == [ id : 1..MaxScans, safe : BOOLEAN ]
ScanLists ==
    { l \in SeqsUpTo(ScanRecords, MaxScans) :
        \A i, j \in 1..Len(l) : i # j => l[i].id # l[j].id }

\* scans.filter(s => s.safe).length and scans.filter(s => !s.safe).length
CountSafe(scans)   == Cardinality({ i \in 1..Len(scans) : scans[i].safe })
CountUnsafe(scans) == Cardinality({ i \in 1..Len(scans) : ~scans[i].safe })

\* the statistics the snapshot callback computes
StatsOf(scans) ==
    [ total |-> Len(scans), safe |-> CountSafe(scans), unsafe |-> CountUnsafe(scans) ]

\* history.find(scan => scan.id === scanId): {} when there is none
FindScan(scans, id) ==
    IF \E i \in 1..Len(scans) : scans[i].id = id
    THEN { scans[CHOOSE i \in 1..Len(scans) :
                    /\ scans[i].id = id
                    /\ \A j \in 1..(i - 1) : scans[j].id # id] }
    ELSE {}

\* prev.filter(scan => scan.id !== scanId)
WithoutScan(scans, id) ==
    LET Keep(scan) == scan.id # id IN SelectSeq(scans, Keep)

\* the decrement of scanStats for the removed scan
StatsWithout(prev, deletedScan) ==
    IF deletedScan = {} THEN prev
    ELSE LET d == CHOOSE x \in deletedScan : TRUE IN
         [ total  |-> prev.total - 1,
           safe   |-> prev.safe - (IF d.safe THEN 1 ELSE 0),
           unsafe |-> prev.unsafe - (IF d.safe THEN 0 ELSE 1) ]

\* the catch block's setHistory(prev => [...prev]): a copy of the list
RevertHistory(prev) == [ i \in 1..Len(prev) |-> prev[i] ]

\* the component is mounted, the listener has delivered the collection, and
\* the user presses the delete button of one of the scans shown
ScannerInit ==
    /\ store \in ScanLists \ { <<>> }
    /\ delivered = store
    /\ history = store
    /\ scanStats = StatsOf(store)
    /\ dpc = "call"
    /\ scanId \in { store[i].id : i \in 1..Len(store) }
    /\ before = [history |-> history, scanStats |-> scanStats]
    /\ ScanIdle
    /\ BreachIdle
    /\ StrengthIdle
    /\ NormalizeIdle
    /\ FirstCall
    /\ TodoIdle
    /\ GeneratorIdle

\* if (!user || !confirm(...)) return
DeleteDeclined ==
    /\ dpc = "call"
    /\ dpc' = "done"
    /\ UNCHANGED <<history, scanStats, store, delivered, scanId, before>>
    /\ UNCHANGED scanVars
    /\ UNCHANGED breachVars
    /\ UNCHANGED strengthVars
    /\ UNCHANGED normVars
    /\ UNCHANGED twiceVars
    /\ UNCHANGED todoVars
    /\ UNCHANGED genVars

\* the optimistic removal, up to the await of the remote delete
DeleteLocally ==
    /\ dpc = "call"
    /\ LET deletedScan == FindScan(history, scanId) IN
       /\ history' = WithoutScan(history, scanId)
       /\ scanStats' = StatsWithout(scanStats, deletedScan)
    /\ before' = [history |-> history, scanStats |-> scanStats]
    /\ dpc' = "await"
    /\ UNCHANGED <<store, delivered, scanId>>
    /\ UNCHANGED scanVars
    /\ UNCHANGED breachVars
    /\ UNCHANGED strengthVars
    /\ UNCHANGED normVars
    /\ UNCHANGED twiceVars
    /\ UNCHANGED todoVars
    /\ UNCHANGED genVars

\* deleteDoc succeeds
RemoteDeleteOk ==
    /\ dpc = "await"
    /\ store' = WithoutScan(store, scanId)
    /\ dpc' = "done"
    /\ UNCHANGED <<history, scanStats, delivered, scanId, before>>
    /\ UNCHANGED scanVars
    /\ UNCHANGED breachVars
    /\ UNCHANGED strengthVars
    /\ UNCHANGED normVars
    /\ UNCHANGED twiceVars
    /\ UNCHANGED todoVars
    /\ UNCHANGED genVars

\* deleteDoc fails: deletePhishingScan rethrows, the catch block runs
RemoteDeleteFails ==
    /\ dpc = "await"
    /\ history' = RevertHistory(history)
    /\ dpc' = "failed"
    /\ UNCHANGED <<scanStats, store, delivered, scanId, before>>
    /\ UNCHANGED scanVars
    /\ UNCHANGED breachVars
    /\ UNCHANGED strengthVars
    /\ UNCHANGED normVars
    /\ UNCHANGED twiceVars
    /\ UNCHANGED todoVars
    /\ UNCHANGED genVars

\* the snapshot listener: the query result changed, the callback replaces
\* history and recomputes scanStats
SnapshotDelivered ==
    /\ dpc # "idle"
    /\ delivered # store
    /\ delivered' = store
    /\ history' = store
    /\ scanStats' = StatsOf(store)
    /\ UNCHANGED <<store, dpc, scanId, before>>
    /\ UNCHANGED scanVars
    /\ UNCHANGED breachVars
    /\ UNCHANGED strengthVars
    /\ UNCHANGED normVars
    /\ UNCHANGED twiceVars
    /\ UNCHANGED todoVars
    /\ UNCHANGED genVars

ScannerNext ==
    \/ DeleteDeclined
    \/ DeleteLocally
    \/ RemoteDeleteOk
    \/ RemoteDeleteFails
    \/ SnapshotDelivered

SpecScanner == ScannerInit /\ [][ScannerNext]_vars

----------------------------------------------------------------------------
(* Properties of deleteScan *)

\* C24: once the remote delete has failed after the optimistic removal, the
\* history again contains the scan and scanStats (total, safe, unsafe) again
\* have the values they had when deleteScan was called.
C24_DeleteRollsBack ==
    dpc = "failed" =>
        /\ FindScan(history, scanId) # {}
        /\ scanStats = before.scanStats

----------------------------------------------------------------------------
(* TodoManager component: tasks and toggleComplete *)

TaskIds == 1..MaxTasks

\* tasks.map(t => t.id === task.id ? updatedTask : t), on the `tasks` of the
\* render the handler was created in
MapUpdated(renderedTasks, id, completed) ==
    [ t \in DOMAIN renderedTasks |-> IF t = id THEN completed ELSE renderedTasks[t] ]

\* loadTasks has run: the list shows what the store holds
TodoInit ==
    /\ todoStore \in [ TaskIds -> BOOLEAN ]
    /\ tasks = todoStore
    /\ toggles = <<>>
    /\ ScanIdle
    /\ BreachIdle
    /\ StrengthIdle
    /\ NormalizeIdle
    /\ FirstCall
    /\ ScannerIdle
    /\ GeneratorIdle

\* the user clicks the checkbox of a task: toggleComplete(task) of the
\* current render runs up to the await, holding that render's `task` and
\* `tasks`
ToggleStart ==
    /\ Len(toggles) < MaxToggles
    /\ \E id \in TaskIds :
        toggles' = Append(toggles,
            [ pc |-> "await", id |-> id, completed |-> ~tasks[id], tasks |-> tasks ])
    /\ UNCHANGED <<tasks, todoStore>>
    /\ UNCHANGED scanVars
    /\ UNCHANGED breachVars
    /\ UNCHANGED strengthVars
    /\ UNCHANGED normVars
    /\ UNCHANGED twiceVars
    /\ UNCHANGED deleteVars
    /\ UNCHANGED genVars

\* updateDoc writes the completed field
RemoteUpdateOk ==
    \E c \in 1..Len(toggles) :
        /\ toggles[c].pc = "await"
        /\ todoStore' = [todoStore EXCEPT ![toggles[c].id] = toggles[c].completed]
        /\ toggles' = [toggles EXCEPT ![c].pc = "resume"]
        /\ UNCHANGED tasks
        /\ UNCHANGED scanVars
        /\ UNCHANGED breachVars
        /\ UNCHANGED strengthVars
        /\ UNCHANGED normVars
        /\ UNCHANGED twiceVars
        /\ UNCHANGED deleteVars
        /\ UNCHANGED genVars

\* updateDoc rejects: the catch block logs the error
RemoteUpdateFails ==
    \E c \in 1..Len(toggles) :
        /\ toggles[c].pc = "await"
        /\ toggles' = [toggles EXCEPT ![c].pc = "failed"]
        /\ UNCHANGED <<tasks, todoStore>>
        /\ UNCHANGED scanVars
        /\ UNCHANGED breachVars
        /\ UNCHANGED strengthVars
        /\ UNCHANGED normVars
        /\ UNCHANGED twiceVars
        /\ UNCHANGED deleteVars
        /\ UNCHANGED genVars

\* the call resumes after the await: setTasks(tasks.map(...))
UpdateLocalState ==
    \E c \in 1..Len(toggles) :
        /\ toggles[c].pc = "resume"
        /\ tasks' = MapUpdated(toggles[c].tasks, toggles[c].id, toggles[c].completed)
        /\ toggles' = [toggles EXCEPT ![c].pc = "done"]
        /\ UNCHANGED todoStore
        /\ UNCHANGED scanVars
        /\ UNCHANGED breachVars
        /\ UNCHANGED strengthVars
        /\ UNCHANGED normVars
        /\ UNCHANGED twiceVars
        /\ UNCHANGED deleteVars
        /\ UNCHANGED genVars

TodoNext ==
    \/ ToggleStart
    \/ RemoteUpdateOk
    \/ RemoteUpdateFails
    \/ UpdateLocalState

SpecTodo == TodoInit /\ [][TodoNext]_vars

----------------------------------------------------------------------------
(* Properties of toggleComplete *)

AllTogglesSucceeded ==
    /\ Len(toggles) > 0
    /\ \A c \in 1..Len(toggles) : toggles[c].pc = "done"

\* C25: when every toggleComplete call started has finished and every remote
\* update succeeded, the local completed flag of every task equals the
\* completed value the store holds for it.
C25_LocalMatchesStore ==
    AllTogglesSucceeded => \A id \in TaskIds : tasks[id] = todoStore[id]

----------------------------------------------------------------------------
(* passwordStrengthChecker.generateStrongPassword *)

\* "ABC...XYZabc...xyz0123456789!@#$%^&*"
DigitChars == <<"0","1","2","3","4","5","6","7","8","9">>
SymbolChars == <<"!","@","#","$","%","^","&","*">>
charset == UpperLetters \o LowerLetters \o DigitChars \o SymbolChars

\* charset.charAt(index), index counted from 0
charAt(s, index) == s[index + 1]

\* the default of the length parameter
DefaultLength == 16

\* Math.floor(Math.random() * charset.length): the first and the last index
\* of each of the four character classes of charset
RandomIndices == { 0, 25, 26, 51, 52, 61, 62, 69 }

\* number of places where a string differs from its previous character
Changes(s) == Cardinality({ i \in 2..Len(s) : s[i] # s[i - 1] })

\* the user presses "Generate Strong Password"
GeneratorInit ==
    /\ generated = <<>>
    /\ gpc = "loop"
    /\ rating = [score |-> 0, strength |-> "weak", feedback |-> <<>>]
    /\ ScanIdle
    /\ BreachIdle
    /\ StrengthIdle
    /\ NormalizeIdle
    /\ FirstCall
    /\ ScannerIdle
    /\ TodoIdle

\* one iteration of the for loop: i = Len(generated) < length
AppendRandomChar ==
    /\ gpc = "loop"
    /\ Len(generated) < DefaultLength
    /\ \E index \in RandomIndices :
        /\ generated' = Append(generated, charAt(charset, index))
        /\ Changes(generated') <= MaxChanges
    /\ UNCHANGED <<gpc, rating>>
    /\ UNCHANGED scanVars
    /\ UNCHANGED breachVars
    /\ UNCHANGED strengthVars
    /\ UNCHANGED normVars
    /\ UNCHANGED twiceVars
    /\ UNCHANGED deleteVars
    /\ UNCHANGED todoVars

\* the loop ends and the password is returned to generatePassword, which
\* puts it into the input field
ReturnPassword ==
    /\ gpc = "loop"
    /\ Len(generated) >= DefaultLength
    /\ gpc' = "returned"
    /\ UNCHANGED <<generated, rating>>
    /\ UNCHANGED scanVars
    /\ UNCHANGED breachVars
    /\ UNCHANGED strengthVars
    /\ UNCHANGED normVars
    /\ UNCHANGED twiceVars
    /\ UNCHANGED deleteVars
    /\ UNCHANGED todoVars

\* checkPassword: checkStrength on the generated password
RateGenerated ==
    /\ gpc = "returned"
    /\ rating' = checkStrength(generated)
    /\ gpc' = "rated"
    /\ UNCHANGED generated
    /\ UNCHANGED scanVars
    /\ UNCHANGED breachVars
    /\ UNCHANGED strengthVars
    /\ UNCHANGED normVars
    /\ UNCHANGED twiceVars
    /\ UNCHANGED deleteVars
    /\ UNCHANGED todoVars

GeneratorNext ==
    \/ AppendRandomChar
    \/ ReturnPassword
    \/ RateGenerated

SpecGenerator == GeneratorInit /\ [][GeneratorNext]_vars

----------------------------------------------------------------------------
(* Properties of generateStrongPassword *)

\* C26: every password generateStrongPassword returns for the default length
\* is rated strong, with a score of at least 5, by checkStrength.
C26_GeneratedIsStrong ==
    gpc = "rated" =>
        /\ Len(generated) = DefaultLength
        /\ rating.strength = "strong"
        /\ rating.score >= 5

----------------------------------------------------------------------------
(* Properties of the returned verdict of scanUrl *)

\* C27: in every result scanUrl returns, through the normal path or as the
\* fallback, safe is true if and only if riskLevel is low.
C27_SafeIffLow ==
    Returned => (results.safe <=> results.riskLevel = "low")

\* the local check found nothing, the reputation service flagged the domain,
\* and the returned result is unsafe with high risk
C27_Witness ==
    /\ Returned
    /\ NormalPath
    /\ basicCheck.safe
    /\ log.ipqs.status = "returned"
    /\ log.ipqs.data.malicious \/ log.ipqs.data.phishing
    /\ ~results.safe
    /\ results.riskLevel = "high"

\* the result stages 1-3 alone determine: the local check and the answers of
\* stages 2 and 3, finalized, with stage 4 left out
ResultWithoutStage4 ==
    LET r1 == ApplyBasic(InitialResults(0), basicCheck)
        r2 == IF log.google.status = "returned"
              THEN ApplyGoogle(r1, checkWithGoogle(log.google.matches)) ELSE r1
        r3 == IF log.ipqs.status = "returned"
              THEN ApplyIpqs(r2, checkDomainReputation(log.ipqs.data)) ELSE r2
    IN  Finalize(r3)

OutcomeFields ==
    { "safe", "riskLevel", "threatTypes", "googleSafe", "domainReputation",
      "riskScore", "details" }

\* C28: the returned safe, riskLevel, threatTypes, googleSafe,
\* domainReputation, riskScore and details are those the input and stages 1-3
\* determine, whether stage 4 was skipped, failed, reported no malicious
\* engine or reported some; no step of stage 4 changes any of these fields.
C28_Stage4NoEffect ==
    /\ [][ pc = "vt" => \A f \in OutcomeFields : results'[f] = results[f] ]_vars
    /\ []( (Returned /\ NormalPath) =>
              \A f \in OutcomeFields : results[f] = ResultWithoutStage4[f] )
    /\ []( (Returned /\ ~NormalPath) => log.vt.status = Pending )

\* stage 4 ran on a verdict stage 1 alone had made high, and every engine of
\* the service flagged the URL
C28_Witness ==
    /\ Returned
    /\ NormalPath
    /\ basicCheck.riskLevel = "high"
    /\ log.google.status # "returned"
    /\ log.vt.status = "returned"
    /\ log.vt.malicious = MaxEngines

\* the input does not begin with the exact lowercase prefix "https://"
NotHttps == ~startsWith(url, HttpsPrefix)

\* C29 as stated: for an input that does not begin with "https://" the
\* returned result is unsafe with riskLevel at least medium, its threatTypes
\* contain the not-using-HTTPS finding unless stage 2 replaced the list, and
\* no answer of a service makes the assessment safe.
C29_NonHttpsUnsafeOriginal ==
    NotHttps =>
        /\ pc # "basic" => (~results.safe /\ Rank(results.riskLevel) >= 1)
        /\ (Returned /\ ~GoogleMatched) =>
              "Not using HTTPS" \in Range(results.threatTypes)

\* C29 amended: for an input that does not begin with "https://" the returned
\* result is unsafe with riskLevel at least medium and no answer of a service
\* makes the assessment safe; on the normal path threatTypes contain the
\* not-using-HTTPS finding unless stage 2 replaced the list, and the fallback
\* result carries the single entry "Scan failed" instead.
C29_NonHttpsUnsafe ==
    NotHttps =>
        /\ pc # "basic" => (~results.safe /\ Rank(results.riskLevel) >= 1)
        /\ (Returned /\ NormalPath /\ ~GoogleMatched) =>
              "Not using HTTPS" \in Range(results.threatTypes)
        /\ (Returned /\ ~NormalPath) => results.threatTypes = <<"Scan failed">>

\* the bare domain example.com: stage 2 answers that nothing matches, stage 3
\* is skipped because the assessment is already unsafe
C29_Witness ==
    /\ Returned
    /\ NormalPath
    /\ url = UrlBare
    /\ log.google.status = "returned"
    /\ log.google.matches = NoMatches
    /\ log.ipqs.status = "skipped"
    /\ ~results.safe
    /\ results.riskLevel = "medium"
    /\ results.threatTypes = <<"Not using HTTPS">>

----------------------------------------------------------------------------
(* Properties of checkStrength: length bounds *)

\* the longest entry of the common-password list
LongestCommon ==
    CHOOSE n \in { Len(c) : c \in commonPasswords } :
        \A c \in commonPasswords : Len(c) <= n

\* C30: a password shorter than 8 characters has a score of at most 4 and is
\* never rated strong; a password of 12 or more characters has a score of at
\* least 3 and is never rated weak, because no entry of the common-password
\* list is that long and every character is in one of the four classes.
C30_LengthBounds ==
    /\ LongestCommon < 12
    /\ StrengthReturned =>
        /\ Len(candidate) < 8 =>
              (assessment.score <= 4 /\ assessment.strength # "strong")
        /\ Len(candidate) >= 12 =>
              /\ assessment.score >= 3
              /\ assessment.strength # "weak"
              /\ ~OnCommonList(candidate)
              /\ ClassesOf(candidate) # {}

\* twelve characters of one class: the lowest score a long password can get
C30_Witness ==
    /\ StrengthReturned
    /\ Len(candidate) = 12
    /\ Cardinality(ClassesOf(candidate)) = 1
    /\ assessment.score = 3
    /\ assessment.strength = "medium"

====
